---- MODULE Spec2Model ----
(***************************************************************************)
(* Banco de Sangue Digital (src/app.py): the ANVISA page's ingestion and   *)
(* aggregation pipeline.                                                   *)
(*                                                                         *)
(* Text is modelled as a sequence of one-character strings, so that the    *)
(* string conversions of the code (strip, upper, NFD, ascii-encode, split, *)
(* str(int(..)), numeric parsing) are computed character by character.     *)
(* Three characters have no printable one-letter form and are written as   *)
(* tokens: "TAB" (U+0009), "NBSP" (U+00A0) and the combining marks         *)
(* "ACUTE" (U+0301), "TILDE" (U+0303), "CIRC" (U+0302).                    *)
(***************************************************************************)
EXTENDS Integers, Sequences, FiniteSets, TLC

VARIABLES
  hemoprod_df,    \* st.session_state["hemoprod_df"]: a DataFrame, or SEM_DF when absent
  up,             \* the file the uploader widget holds, or SEM_ARQUIVO
  hemoprod_url,   \* the text of the URL input
  cache_default,  \* the memoised result of get_default_dataframe, or SEM_DF
  cache_read,     \* the memoised results of read_csv_robusto, per URL
  rerun,          \* st.rerun() was called: the script runs again at once
  out,            \* what the last run of pagina_anvisa showed
  arg,            \* the argument of the utility call in progress (utility specifications)
  ret             \* its result, or Pending before the call

vars == <<hemoprod_df, up, hemoprod_url, cache_default, cache_read, rerun, out, arg, ret>>

sessao == <<hemoprod_df, up, hemoprod_url, cache_default, cache_read, rerun>>

util == <<arg, ret>>

(***************************************************************************)
(* Bounds of the model.                                                    *)
(***************************************************************************)
\* longest run of whitespace put around and inside a region name
MaxPad == 1
\* most rows of a table
MaxRows == 2
\* most lines of a CSV payload
MaxLines == 2

(***************************************************************************)
(* Python values.                                                          *)
(***************************************************************************)
\* Python's None
None == <<"None">>
\* a missing cell of a DataFrame read with dtype=str (float NaN)
NaN == <<"NaN">>
\* a utility call that has not returned yet, and one that returned v
Pending == [done |-> FALSE]

Retorno(v) == [done |-> TRUE, valor |-> v]

\* no utility call in this behaviour
SEM_ARG == [ocioso |-> TRUE]
\* no DataFrame: an absent st.session_state key, an absent cache entry
SEM_DF == [ausente |-> TRUE]
\* the uploader holds no file
SEM_ARQUIVO == [vazio |-> TRUE]

(***************************************************************************)
(* Characters: str.isspace, str.upper, str.lower, unicodedata.normalize    *)
(* ("NFD") and str.encode("ascii", "ignore") on the model's alphabet.      *)
(***************************************************************************)
LOWER ==
  << "a", "b", "c", "d", "e", "f", "g", "h", "i", "j", "k", "l", "m",
     "n", "o", "p", "q", "r", "s", "t", "u", "v", "w", "x", "y", "z",
     "á", "ã", "í", "ô", "ê" >>

UPPER ==
  << "A", "B", "C", "D", "E", "F", "G", "H", "I", "J", "K", "L", "M",
     "N", "O", "P", "Q", "R", "S", "T", "U", "V", "W", "X", "Y", "Z",
     "Á", "Ã", "Í", "Ô", "Ê" >>

IndexOf(seq, c) == CHOOSE i \in 1..Len(seq) : seq[i] = c

InSeq(seq, c) == \E i \in 1..Len(seq) : seq[i] = c

\* characters outside ASCII: dropped by encode("ascii", "ignore")
NON_ASCII ==
  { "á", "ã", "í", "ô", "ê", "Á", "Ã", "Í", "Ô", "Ê", "ß",
    "NBSP", "ACUTE", "TILDE", "CIRC" }

\* str.isspace: what str.strip() removes and str.split() splits on
isspace(c) == c \in {" ", "TAB", "NBSP"}

\* str.upper of one character; the German sharp s becomes two letters
upper_char(c) ==
  IF InSeq(LOWER, c) THEN <<UPPER[IndexOf(LOWER, c)]>>
  ELSE IF c = "ß" THEN <<"S", "S">>
  ELSE <<c>>

\* str.lower of one character
lower_char(c) ==
  IF InSeq(UPPER, c) THEN <<LOWER[IndexOf(UPPER, c)]>> ELSE <<c>>

\* canonical decomposition of one character: base letter, then combining mark
nfd_char(c) ==
  CASE c = "á" -> <<"a", "ACUTE">>
    [] c = "Á" -> <<"A", "ACUTE">>
    [] c = "ã" -> <<"a", "TILDE">>
    [] c = "Ã" -> <<"A", "TILDE">>
    [] c = "í" -> <<"i", "ACUTE">>
    [] c = "Í" -> <<"I", "ACUTE">>
    [] c = "ô" -> <<"o", "CIRC">>
    [] c = "Ô" -> <<"O", "CIRC">>
    [] c = "ê" -> <<"e", "CIRC">>
    [] c = "Ê" -> <<"E", "CIRC">>
    [] OTHER   -> <<c>>

RECURSIVE upper(_)
upper(s) == IF s = <<>> THEN <<>> ELSE upper_char(Head(s)) \o upper(Tail(s))

RECURSIVE lower(_)
lower(s) == IF s = <<>> THEN <<>> ELSE lower_char(Head(s)) \o lower(Tail(s))

RECURSIVE normalize_NFD(_)
normalize_NFD(s) ==
  IF s = <<>> THEN <<>> ELSE nfd_char(Head(s)) \o normalize_NFD(Tail(s))

encode_ascii_ignore(s) == SelectSeq(s, LAMBDA c : c \notin NON_ASCII)

RECURSIVE lstrip(_)
lstrip(s) == IF s # <<>> /\ isspace(Head(s)) THEN lstrip(Tail(s)) ELSE s

RECURSIVE rstrip(_)
rstrip(s) ==
  IF s # <<>> /\ isspace(s[Len(s)]) THEN rstrip(SubSeq(s, 1, Len(s) - 1)) ELSE s

\* str.strip()
strip(s) == rstrip(lstrip(s))

\* the first word of a string that does not start with whitespace
RECURSIVE first_word(_)
first_word(s) ==
  IF s = <<>> \/ isspace(Head(s)) THEN <<>> ELSE <<Head(s)>> \o first_word(Tail(s))

\* " ".join(s.split()): the words of s, separated by single spaces
RECURSIVE join_split(_)
join_split(s) ==
  LET t == lstrip(s)
      w == first_word(t)
      rest == lstrip(SubSeq(t, Len(w) + 1, Len(t)))
  IN IF t = <<>> THEN <<>>
     ELSE IF rest = <<>> THEN w
     ELSE w \o <<" ">> \o join_split(rest)

\* str(x) of a cell: a string is itself, a missing cell prints as "nan"
str(x) == IF x = NaN THEN <<"n", "a", "n">> ELSE x

(***************************************************************************)
(* Region normaliser.                                                      *)
(***************************************************************************)
\* approximate centroid per region: only the 27 keys matter here
UF_CENTER ==
  { <<"A","C">>, <<"A","L">>, <<"A","M">>, <<"A","P">>, <<"B","A">>, <<"C","E">>, <<"D","F">>,
    <<"E","S">>, <<"G","O">>, <<"M","A">>, <<"M","G">>, <<"M","S">>, <<"M","T">>, <<"P","A">>,
    <<"P","B">>, <<"P","E">>, <<"P","I">>, <<"P","R">>, <<"R","J">>, <<"R","N">>, <<"R","O">>,
    <<"R","R">>, <<"R","S">>, <<"S","C">>, <<"S","E">>, <<"S","P">>, <<"T","O">> }

\* region name -> code
UF_NOMES ==
  <<
     << <<"A","C","R","E">>, <<"A","C">> >>,
     << <<"A","L","A","G","O","A","S">>, <<"A","L">> >>,
     << <<"A","M","A","P","A">>, <<"A","P">> >>,
     << <<"A","M","A","P","Á">>, <<"A","P">> >>,
     << <<"A","M","A","Z","O","N","A","S">>, <<"A","M">> >>,
     << <<"B","A","H","I","A">>, <<"B","A">> >>,
     << <<"C","E","A","R","A">>, <<"C","E">> >>,
     << <<"C","E","A","R","Á">>, <<"C","E">> >>,
     << <<"D","I","S","T","R","I","T","O"," ","F","E","D","E","R","A","L">>, <<"D","F">> >>,
     << <<"E","S","P","I","R","I","T","O"," ","S","A","N","T","O">>, <<"E","S">> >>,
     << <<"E","S","P","Í","R","I","T","O"," ","S","A","N","T","O">>, <<"E","S">> >>,
     << <<"G","O","I","A","S">>, <<"G","O">> >>,
     << <<"G","O","I","Á","S">>, <<"G","O">> >>,
     << <<"M","A","R","A","N","H","A","O">>, <<"M","A">> >>,
     << <<"M","A","R","A","N","H","Ã","O">>, <<"M","A">> >>,
     << <<"M","A","T","O"," ","G","R","O","S","S","O"," ","D","O"," ","S","U","L">>, <<"M","S">> >>,
     << <<"M","A","T","O"," ","G","R","O","S","S","O">>, <<"M","T">> >>,
     << <<"M","I","N","A","S"," ","G","E","R","A","I","S">>, <<"M","G">> >>,
     << <<"P","A","R","A">>, <<"P","A">> >>,
     << <<"P","A","R","Á">>, <<"P","A">> >>,
     << <<"P","A","R","A","I","B","A">>, <<"P","B">> >>,
     << <<"P","A","R","A","Í","B","A">>, <<"P","B">> >>,
     << <<"P","A","R","A","N","A">>, <<"P","R">> >>,
     << <<"P","A","R","A","N","Á">>, <<"P","R">> >>,
     << <<"P","E","R","N","A","M","B","U","C","O">>, <<"P","E">> >>,
     << <<"P","I","A","U","I">>, <<"P","I">> >>,
     << <<"P","I","A","U","Í">>, <<"P","I">> >>,
     << <<"R","I","O"," ","D","E"," ","J","A","N","E","I","R","O">>, <<"R","J">> >>,
     << <<"R","I","O"," ","G","R","A","N","D","E"," ","D","O"," ","N","O","R","T","E">>, <<"R","N">> >>,
     << <<"R","I","O"," ","G","R","A","N","D","E"," ","D","O"," ","S","U","L">>, <<"R","S">> >>,
     << <<"R","O","N","D","O","N","I","A">>, <<"R","O">> >>,
     << <<"R","O","N","D","Ô","N","I","A">>, <<"R","O">> >>,
     << <<"R","O","R","A","I","M","A">>, <<"R","R">> >>,
     << <<"S","A","N","T","A"," ","C","A","T","A","R","I","N","A">>, <<"S","C">> >>,
     << <<"S","A","O"," ","P","A","U","L","O">>, <<"S","P">> >>,
     << <<"S","Ã","O"," ","P","A","U","L","O">>, <<"S","P">> >>,
     << <<"S","E","R","G","I","P","E">>, <<"S","E">> >>,
     << <<"T","O","C","A","N","T","I","N","S">>, <<"T","O">> >>
  >>

strip_accents_upper(s) ==
  join_split(upper(encode_ascii_ignore(normalize_NFD(s))))

\* UF_NOMES.get(k)
UF_NOMES_get(k) ==
  IF \E i \in 1..Len(UF_NOMES) : UF_NOMES[i][1] = k
  THEN UF_NOMES[CHOOSE i \in 1..Len(UF_NOMES) : UF_NOMES[i][1] = k][2]
  ELSE None

uf_para_sigla(valor) ==
  IF valor = None \/ strip(str(valor)) = <<>> THEN None
  ELSE LET v == strip(str(valor))
       IN IF Len(v) <= 2 THEN upper(v)
          ELSE UF_NOMES_get(strip_accents_upper(v))

(***************************************************************************)
(* Numbers.  pd.to_numeric(..., errors="coerce") of one cell: an optional  *)
(* sign, digits with at most one decimal point, at least one digit;        *)
(* anything else, and a missing cell, is NaN.  A number is held exactly,   *)
(* in hundredths (the cells of the model carry at most two decimals, all   *)
(* exactly representable in binary floating point).                        *)
(***************************************************************************)
DIGITS == << "0", "1", "2", "3", "4", "5", "6", "7", "8", "9" >>

NAN_NUM == [ok |-> FALSE, v |-> 0]

Num(n) == [ok |-> TRUE, v |-> n]

RECURSIVE int_of_digits(_)
int_of_digits(s) ==
  IF s = <<>> THEN 0
  ELSE 10 * int_of_digits(SubSeq(s, 1, Len(s) - 1)) + (IndexOf(DIGITS, s[Len(s)]) - 1)

\* the position of the first "." of body, or one past its end
first_dot(body) ==
  LET dots == { i \in 1..Len(body) : body[i] = "." }
  IN IF dots = {} THEN Len(body) + 1 ELSE CHOOSE i \in dots : \A j \in dots : i <= j

\* the float written as digits ip, "." and digits fp, negated when neg; NaN when
\* that is no number; the value is held in hundredths, the first two decimals
float_partes(neg, ip, fp, pontos) ==
  IF /\ pontos <= 1
     /\ Len(ip) + Len(fp) >= 1
     /\ \A i \in 1..Len(ip) : InSeq(DIGITS, ip[i])
     /\ \A i \in 1..Len(fp) : InSeq(DIGITS, fp[i])
  THEN Num((IF neg THEN 0 - 1 ELSE 1) *
           (100 * int_of_digits(ip) + int_of_digits(SubSeq(fp \o <<"0", "0">>, 1, 2))))
  ELSE NAN_NUM

float_sinal(neg, body) ==
  float_partes(neg, SubSeq(body, 1, first_dot(body) - 1),
               SubSeq(body, first_dot(body) + 1, Len(body)),
               Cardinality({ i \in 1..Len(body) : body[i] = "." }))

\* float(t) of a stripped text, with an optional sign
float_texto(t) ==
  float_sinal(t # <<>> /\ Head(t) = "-",
              IF t # <<>> /\ Head(t) \in {"-", "+"} THEN Tail(t) ELSE t)

\* pd.to_numeric(x, errors="coerce") of one cell
to_numeric(x) ==
  IF x = NaN \/ x = None THEN NAN_NUM ELSE float_texto(strip(x))

\* .str.replace(".", "", regex=False).str.replace(",", ".", regex=False)
RECURSIVE replace_separators(_)
replace_separators(s) ==
  IF s = <<>> THEN <<>>
  ELSE (CASE Head(s) = "." -> <<>>
          [] Head(s) = "," -> <<".">>
          [] OTHER -> <<Head(s)>>) \o replace_separators(Tail(s))

\* to_numeric_safe of one cell of the series
to_numeric_safe(x) == to_numeric(replace_separators(str(x)))

\* int(x) of a float: truncation towards zero
int_of(n) == IF n >= 0 THEN n \div 100 ELSE 0 - ((0 - n) \div 100)

\* str(n) of an int
RECURSIVE digits_of(_)
digits_of(n) ==
  IF n < 10 THEN <<DIGITS[n + 1]>> ELSE digits_of(n \div 10) \o <<DIGITS[(n % 10) + 1]>>

str_int(n) == IF n < 0 THEN <<"-">> \o digits_of(0 - n) ELSE digits_of(n)

RECURSIVE SumSeq(_)
SumSeq(s) == IF s = <<>> THEN 0 ELSE Head(s) + SumSeq(Tail(s))

RECURSIVE unique(_)
\* the distinct elements of s, in order of first appearance
unique(s) ==
  IF s = <<>> THEN <<>>
  ELSE LET u == unique(SubSeq(s, 1, Len(s) - 1))
       IN IF InSeq(u, s[Len(s)]) THEN u ELSE Append(u, s[Len(s)])

Range(s) == { s[i] : i \in 1..Len(s) }

(***************************************************************************)
(* DataFrames read with dtype=str: a sequence of column names and a        *)
(* sequence of rows, each row one cell (text or NaN) per column.           *)
(***************************************************************************)
DataFrame(columns, rows) == [columns |-> columns, rows |-> rows]

\* df.empty
empty(df) == Len(df.columns) = 0 \/ Len(df.rows) = 0

\* position of column c
loc(df, c) == CHOOSE i \in 1..Len(df.columns) : df.columns[i] = c

\* df[mask], mask a sequence of booleans, one per row
RECURSIVE masked(_, _)
masked(rows, mask) ==
  IF rows = <<>> THEN <<>>
  ELSE (IF Head(mask) THEN <<Head(rows)>> ELSE <<>>) \o masked(Tail(rows), Tail(mask))

filter_rows(df, mask) == DataFrame(df.columns, masked(df.rows, mask))

\* sub in c
contains(c, sub) ==
  \E i \in 0..(Len(c) - Len(sub)) : SubSeq(c, i + 1, i + Len(sub)) = sub

startswith(c, pre) == Len(c) >= Len(pre) /\ SubSeq(c, 1, Len(pre)) = pre

endswith(c, suf) ==
  Len(c) >= Len(suf) /\ SubSeq(c, Len(c) - Len(suf) + 1, Len(c)) = suf

normaliza_colunas(df) ==
  LET ren == [i \in 1..Len(df.columns) |-> join_split(lower(strip(df.columns[i])))]
      keep == { i \in 1..Len(ren) : ~startswith(ren[i], <<"u","n","n","a","m","e","d">>) }
      pick(s) == LET RECURSIVE go(_)
                     go(i) == IF i > Len(s) THEN <<>>
                              ELSE (IF i \in keep THEN <<s[i]>> ELSE <<>>) \o go(i + 1)
                 IN go(1)
  IN DataFrame(pick(ren), [k \in 1..Len(df.rows) |-> pick(df.rows[k])])

ID_DA_RESPOSTA == <<"i","d"," ","d","a"," ","r","e","s","p","o","s","t","a">>

\* the first element of a sequence of hits, or None
first_or_none(hits) == IF hits = <<>> THEN None ELSE Head(hits)

\* lines 157-160: the first column with "ano" and "ref" in its name
col_ano_de(columns) ==
  first_or_none(SelectSeq(columns,
    LAMBDA c : /\ contains(c, <<"a","n","o">>)
               /\ \/ contains(c, <<"r","e","f">>)
                  \/ contains(c, <<"r","e","f","e","r">>)
                  \/ contains(c, <<"r","e","f","e","r","ê","n","c","i","a">>)))

\* lines 162-165: the first column named "uf", or ending in " uf", or starting "uf "
col_uf_de(columns) ==
  first_or_none(SelectSeq(columns,
    LAMBDA c : \/ c = <<"u","f">>
               \/ endswith(c, <<" ","u","f">>)
               \/ startswith(c, <<"u","f"," ">>)))

\* lines 170-171: to_numeric_safe(df[c]).notna().sum() > 0
numerica(df, c) ==
  \E k \in 1..Len(df.rows) :
    df.rows[k][loc(df, c)] # NaN /\ to_numeric_safe(df.rows[k][loc(df, c)]).ok

\* lines 167-173: the other columns with at least one number
possiveis(df, col_ano, col_uf) ==
  SelectSeq(df.columns, LAMBDA c : c \notin {col_ano, col_uf} /\ numerica(df, c))

\* lines 175-178: "id da resposta" first
prioriza(cols) ==
  IF InSeq(cols, ID_DA_RESPOSTA)
  THEN <<ID_DA_RESPOSTA>> \o SelectSeq(cols, LAMBDA x : x # ID_DA_RESPOSTA)
  ELSE cols

detecta(df, col_ano, col_uf) ==
  [col_ano |-> col_ano, col_uf |-> col_uf,
   metricas |-> prioriza(possiveis(df, col_ano, col_uf))]

detecta_colunas(df) == detecta(df, col_ano_de(df.columns), col_uf_de(df.columns))

(***************************************************************************)
(* read_csv_robusto.  A CSV payload is its lines (text without the line    *)
(* break) and what csv.Sniffer answers for it: a delimiter, or SNIFF_FALHA *)
(* when it cannot determine one (the python engine then raises).  An       *)
(* uploaded payload is read through a buffer with a position, counted in   *)
(* lines; a URL is fetched anew by every pd.read_csv call, and each fetch  *)
(* answers with a payload or fails (NET_FALHA).                            *)
(***************************************************************************)
DEFAULT_URL == [url |-> "https://www.gov.br/anvisa/.../hemoprod_nacional.csv"]

AUTO == "sep=None"

SNIFF_FALHA == "Could not determine delimiter"

NET_FALHA == [falha |-> TRUE]

Payload(linhas, sniff) == [linhas |-> linhas, sniff |-> sniff]

\* line.split(sep)
RECURSIVE split_sep(_, _)
split_sep(line, sep) ==
  LET hits == { i \in 1..Len(line) : line[i] = sep }
      i == CHOOSE j \in hits : \A h \in hits : j <= h
  IN IF hits = {} THEN <<line>>
     ELSE <<SubSeq(line, 1, i - 1)>> \o split_sep(SubSeq(line, i + 1, Len(line)), sep)

\* the header: an empty field gets the name pandas gives its position (from 0)
header_de(campos) ==
  [i \in 1..Len(campos) |->
     IF campos[i] = <<>>
     THEN <<"U","n","n","a","m","e","d",":"," ">> \o str_int(i - 1)
     ELSE campos[i]]

\* the data lines under the header: short lines are filled with NaN, an empty
\* field is NaN
tabela_de(header, boas) ==
  DataFrame(header,
    [k \in 1..Len(boas) |->
       [i \in 1..Len(header) |->
          IF i > Len(boas[k]) \/ boas[k][i] = <<>> THEN NaN ELSE boas[k][i]]])

\* on_bad_lines="skip": a line with more fields than the header is skipped
parse(cs) ==
  tabela_de(header_de(Head(cs)), SelectSeq(Tail(cs), LAMBDA c : Len(c) <= Len(Head(cs))))

\* the non-blank lines ls split at sep; no line at all raises EmptyDataError, and
\* so does a delimiter the sniffer could not determine
lidas(ls, sep) ==
  IF ls = <<>> \/ sep = SNIFF_FALHA THEN [raised |-> TRUE, df |-> SEM_DF]
  ELSE [raised |-> FALSE, df |-> parse([k \in 1..Len(ls) |-> split_sep(ls[k], sep)])]

\* pd.read_csv(text, sep=sep, engine="python", on_bad_lines="skip", dtype=str):
\* blank lines are skipped, the first line is the header
read_csv(linhas, sep) == lidas(SelectSeq(linhas, LAMBDA l : l # <<>>), sep)

\* the outcome of one attempt and the buffer position it leaves
lida(r, pos) == [raised |-> r.raised, df |-> r.df, pos |-> pos]

\* pd.read_csv(buf, sep=...) on an uploaded buffer: read from its position to its end
tentativa_buf(buf, pos, sep) ==
  lida(read_csv(SubSeq(buf.linhas, pos + 1, Len(buf.linhas)),
                IF sep = AUTO THEN buf.sniff ELSE sep),
       Len(buf.linhas))

\* pd.read_csv(url, sep=...): the response of this call's own fetch
tentativa_url(resposta, pos, sep) ==
  IF resposta = NET_FALHA THEN [raised |-> TRUE, df |-> SEM_DF, pos |-> pos]
  ELSE lida(read_csv(resposta.linhas, IF sep = AUTO THEN resposta.sniff ELSE sep), pos)

\* one pd.read_csv(buf, sep=...) of read_csv_robusto
tentativa(origem, uploaded, pos, sep, resposta) ==
  IF uploaded THEN tentativa_buf(origem, pos, sep) ELSE tentativa_url(resposta, pos, sep)

\* a chain that forgets buf.seek(0)
sem_seek(uploaded, pos) == pos

\* if uploaded: buf.seek(0)
seek_0(uploaded, pos) == IF uploaded THEN 0 ELSE pos

\* lines 138-143: the third attempt returns whatever it read, or raises
apos_3(p2, p3, t3) ==
  IF ~t3.raised
  THEN [raised |-> FALSE, df |-> t3.df, via |-> 3, inicio |-> <<0, p2, p3>>]
  ELSE [raised |-> TRUE, df |-> SEM_DF, via |-> 3, inicio |-> <<0, p2, p3>>]

\* lines 129-136: the second attempt returns a non-empty table
apos_2(origem, uploaded, net, p2, t2) ==
  IF ~t2.raised /\ ~empty(t2.df)
  THEN [raised |-> FALSE, df |-> t2.df, via |-> 2, inicio |-> <<0, p2>>]
  ELSE apos_3(p2, seek_0(uploaded, t2.pos),
              tentativa(origem, uploaded, seek_0(uploaded, t2.pos), ",", net[3]))

\* lines 121-127: the first attempt returns a non-empty table
apos_1(origem, uploaded, net, t1) ==
  IF ~t1.raised /\ ~empty(t1.df)
  THEN [raised |-> FALSE, df |-> t1.df, via |-> 1, inicio |-> <<0>>]
  ELSE apos_2(origem, uploaded, net, seek_0(uploaded, t1.pos),
              tentativa(origem, uploaded, seek_0(uploaded, t1.pos), ";", net[2]))

\* the result: raised, or the DataFrame; via is the attempt that returned and
\* inicio the buffer position at which each attempt made started reading
read_csv_robusto(origem, uploaded, net) ==
  apos_1(origem, uploaded, net, tentativa(origem, uploaded, 0, AUTO, net[1]))

(***************************************************************************)
(* pagina_anvisa, lines 240-334: the widgets and the aggregation.          *)
(***************************************************************************)
TODOS == [kind |-> "(Todos)", valor |-> 0]

RECENTE == [kind |-> "(Mais recente)", valor |-> 0]

Ano(n) == [kind |-> "ano", valor |-> n]

SOMA == "Soma"

CONTAGEM == "Contagem"

\* anos_num = pd.to_numeric(df[col_ano], errors="coerce")
anos_num(df, col_ano) == [k \in 1..Len(df.rows) |-> to_numeric(df.rows[k][loc(df, col_ano)])]

\* the guard of lines 246 and 248
tem_anos(df, col_ano) ==
  /\ col_ano # None
  /\ \E k \in 1..Len(df.rows) : df.rows[k][loc(df, col_ano)] # NaN
  /\ \E k \in 1..Len(df.rows) : anos_num(df, col_ano)[k].ok

\* anos_num.dropna(), as the set of its values
validos(an) == { an[k].v : k \in { j \in 1..Len(an) : an[j].ok } }

maximo(vs) == CHOOSE m \in vs : \A v \in vs : v <= m

\* ano_recente = int(anos_num.dropna().max())
ano_recente(df, col_ano) ==
  IF tem_anos(df, col_ano)
  THEN Num(int_of(maximo(validos(anos_num(df, col_ano)))))
  ELSE NAN_NUM

\* the options of the selectbox "Ano"
anos_opc(df, col_ano) ==
  {TODOS} \cup
  IF tem_anos(df, col_ano)
  THEN {RECENTE} \cup { Ano(int_of(v)) : v \in validos(anos_num(df, col_ano)) }
  ELSE {}

\* lines 262-263: the detected metric columns, or every other column
metricas_ou_resto(df, uf_col, d) ==
  IF Len(d.metricas) = 0
  THEN SelectSeq(df.columns, LAMBDA c : c \notin {d.col_ano, uf_col})
  ELSE d.metricas

metricas(df, uf_col) == metricas_ou_resto(df, uf_col, detecta_colunas(df))

\* the options of a selectbox over ms; st.selectbox returns None when it has none
opcoes(ms) == IF ms = <<>> THEN {None} ELSE Range(ms)

\* every choice the four selectboxes offer for the table df; the region column is
\* "<não há>" (None) or any column
Requests(df) ==
  UNION { { [ano |-> a, uf_col |-> u, met_col |-> m, oper |-> o] :
              a \in anos_opc(df, detecta_colunas(df).col_ano),
              m \in opcoes(metricas(df, u)),
              o \in {SOMA, CONTAGEM} } :
          u \in {None} \cup Range(df.columns) }

\* df_ag[df_ag[col_ano].astype(str) == txt]
igual_a(df, col_ano, txt) ==
  filter_rows(df, [k \in 1..Len(df.rows) |-> str(df.rows[k][loc(df, col_ano)]) = txt])

\* lines 270-274 with ano_recente = rec
filtra_com(df, col_ano, ano_escolhido, rec) ==
  IF ano_escolhido = RECENTE /\ rec.ok
  THEN igual_a(df, col_ano, str_int(rec.v))
  ELSE IF ano_escolhido \notin {TODOS, RECENTE}
  THEN igual_a(df, col_ano, str_int(ano_escolhido.valor))
  ELSE df

\* lines 269-274: the year filter
filtra_ano(df, col_ano, ano_escolhido) ==
  IF col_ano # None /\ ano_escolhido # TODOS
  THEN filtra_com(df, col_ano, ano_escolhido, ano_recente(df, col_ano))
  ELSE df

\* uf_para_sigla(x) or x.upper().strip()
sigla_ou_texto(raw, sigla) == IF sigla = None THEN strip(upper(raw)) ELSE sigla

\* lines 281-282: the column __uf__
uf_norm(df_ag, uf_col) ==
  [k \in 1..Len(df_ag.rows) |->
     sigla_ou_texto(str(df_ag.rows[k][loc(df_ag, uf_col)]),
                    uf_para_sigla(str(df_ag.rows[k][loc(df_ag, uf_col)])))]

\* lines 285-289: the column __valor__
valores(df_ag, met_col, oper) ==
  [k \in 1..Len(df_ag.rows) |->
     IF oper = SOMA THEN to_numeric_safe(df_ag.rows[k][loc(df_ag, met_col)])
     ELSE Num(100)]

\* a grouping that keeps the first value of each group instead of their sum
groupby_first(keys, vals) ==
  LET ks == unique(keys)
  IN [g \in 1..Len(ks) |->
        [uf |-> ks[g],
         valor |-> LET k == CHOOSE j \in 1..Len(keys) :
                              keys[j] = ks[g] /\ \A i \in 1..(j - 1) : keys[i] # ks[g]
                   IN IF vals[k].ok THEN vals[k].v ELSE 0]]

\* lines 291-295: groupby("__uf__", dropna=False)["__valor__"].sum(); NaN adds nothing
groupby_sum(keys, vals) ==
  LET ks == unique(keys)
  IN [g \in 1..Len(ks) |->
        [uf |-> ks[g],
         valor |-> SumSeq([k \in 1..Len(keys) |->
                             IF keys[k] = ks[g] /\ vals[k].ok THEN vals[k].v ELSE 0])]]

\* the same without the isin(UF_CENTER.keys()) filter
so_ufs_sem_filtro(grupo) ==
  [g \in 1..Len(grupo) |->
     [uf |-> strip(upper(str(grupo[g].uf))), valor |-> grupo[g].valor]]

\* lines 296-297: upper, strip, and only the regions of UF_CENTER
so_ufs(grupo) ==
  SelectSeq([g \in 1..Len(grupo) |->
               [uf |-> strip(upper(str(grupo[g].uf))), valor |-> grupo[g].valor]],
            LAMBDA r : r.uf \in UF_CENTER)

\* the correction extended to a third region
ALVO_com_MG == { <<"R","J">>, <<"S","P">>, <<"M","G">> }

ALVO == { <<"R","J">>, <<"S","P">> }

\* lines 300-315: RJ and SP take their row count when their sum is zero
corrige(grupo, keys, oper) ==
  IF oper = SOMA
  THEN LET zerados == SelectSeq(grupo, LAMBDA r : r.uf \in ALVO /\ r.valor = 0)
           cont(uf) == Cardinality({ k \in 1..Len(keys) : keys[k] \in ALVO /\ keys[k] = uf })
       IN [g \in 1..Len(grupo) |->
             IF (\E z \in Range(zerados) : z.uf = grupo[g].uf) /\ cont(grupo[g].uf) > 0
             THEN [uf |-> grupo[g].uf, valor |-> 100 * cont(grupo[g].uf)]
             ELSE grupo[g]]
  ELSE grupo

\* df_ag[met_col] raises KeyError when met_col is no column
KeyError(df_ag, uf_col, met_col, oper) ==
  uf_col # None /\ oper = SOMA /\ ~InSeq(df_ag.columns, met_col)

\* lines 280-317: group, keep the regions, correct RJ and SP; the summary is empty
\* when no region column is chosen
grupo_de(df_ag, req) ==
  IF req.uf_col # None
  THEN corrige(so_ufs(groupby_sum(uf_norm(df_ag, req.uf_col),
                                  valores(df_ag, req.met_col, req.oper))),
               uf_norm(df_ag, req.uf_col), req.oper)
  ELSE <<>>

\* lines 319-334: what the panel shows
painel_de(req, df_ag, grupo) ==
  [fase |-> "painel", req |-> req, df_ag |-> df_ag, total_reg |-> Len(df_ag.rows),
   grupo |-> grupo, aviso |-> Len(grupo) = 0]

\* lines 276-334 on the filtered table df_ag
painel_filtrado(req, df_ag) ==
  IF KeyError(df_ag, req.uf_col, req.met_col, req.oper)
  THEN [fase |-> "excecao", req |-> req, df_ag |-> df_ag, total_reg |-> Len(df_ag.rows),
        grupo |-> <<>>, aviso |-> FALSE]
  ELSE painel_de(req, df_ag, grupo_de(df_ag, req))

\* lines 240-334 for the stored table df and the widgets' values req
painel(df, req) ==
  painel_filtrado(req, filtra_ano(df, detecta_colunas(df).col_ano, req.ano))

\* nothing shown yet
SEM_SAIDA ==
  [fase |-> "inicio", req |-> SEM_DF, df_ag |-> SEM_DF, total_reg |-> 0,
   grupo |-> <<>>, aviso |-> FALSE]

(***************************************************************************)
(* pagina_anvisa, lines 198-238: the session table, the two memoised       *)
(* loaders and the three ways to load.                                     *)
(***************************************************************************)
OUTRA_URL == [url |-> "https://example.org/outro.csv"]

URLS == {DEFAULT_URL, OUTRA_URL}

CACHE_VAZIO == [u \in URLS |-> SEM_DF]

\* what a run shows when it ends before the panel
saida(fase) ==
  [fase |-> fase, req |-> SEM_DF, df_ag |-> SEM_DF, total_reg |-> 0,
   grupo |-> <<>>, aviso |-> FALSE]

\* st.cache_data keeps the result r of a call that returned; a call that raised
\* leaves no entry
memoriza(cr, url, r) ==
  IF r.raised THEN [raised |-> TRUE, df |-> SEM_DF, cr |-> cr]
  ELSE [raised |-> FALSE, df |-> r.df, cr |-> [cr EXCEPT ![url] = r.df]]

\* @st.cache_data read_csv_robusto(url, uploaded=False): a memoised result is
\* returned without a fetch
read_csv_memo(cr, url, net) ==
  IF cr[url] # SEM_DF THEN [raised |-> FALSE, df |-> cr[url], cr |-> cr]
  ELSE memoriza(cr, url, read_csv_robusto(url, FALSE, net))

padrao_normalizado(df, cr) == [raised |-> FALSE, df |-> df, cd |-> df, cr |-> cr]

\* lines 188-190: df = read_csv_robusto(DEFAULT_URL); return normaliza_colunas(df)
padrao_lido(cd, cr, r) ==
  IF r.raised THEN [raised |-> TRUE, df |-> SEM_DF, cd |-> cd, cr |-> cr]
  ELSE padrao_normalizado(normaliza_colunas(r.df), r.cr)

\* @st.cache_data(ttl=3600) get_default_dataframe()
get_default_dataframe(cd, cr, net) ==
  IF cd # SEM_DF THEN [raised |-> FALSE, df |-> cd, cd |-> cd, cr |-> cr]
  ELSE padrao_lido(cd, cr, read_csv_memo(cr, DEFAULT_URL, net))

\* lines 212-216 after the pop: the key is gone when get_default_dataframe raises
limpo(g) ==
  IF g.raised
  THEN [fase |-> "erro_limpar", df |-> SEM_DF, cd |-> g.cd, cr |-> g.cr, rerun |-> FALSE]
  ELSE [fase |-> "limpo", df |-> g.df, cd |-> g.cd, cr |-> g.cr, rerun |-> TRUE]

\* lines 211-216: pop the key, store the default table, rerun; get_default_dataframe
\* is called outside any try, after the pop
passo_limpar(cd, cr, net) == limpo(get_default_dataframe(cd, cr, net))

\* the read of an uploaded file leaves the URL entries as they are (its own entry,
\* keyed by the bytes, always holds what reading them again gives)
sem_memo(cr, r) == [raised |-> r.raised, df |-> r.df, cr |-> cr]

\* lines 226-233: on success store and rerun, on any exception show the failure
carregado(df, cd, r) ==
  IF r.raised
  THEN [fase |-> "falha", df |-> df, cd |-> cd, cr |-> r.cr, rerun |-> FALSE]
  ELSE [fase |-> "carregado", df |-> normaliza_colunas(r.df), cd |-> cd,
        cr |-> r.cr, rerun |-> TRUE]

\* lines 218-233: the uploaded file if the uploader holds one, else the URL
passo_carregar(df, arquivo, url, cd, cr, net) ==
  carregado(df, cd,
            IF arquivo # SEM_ARQUIVO
            THEN sem_memo(cr, read_csv_robusto(arquivo, TRUE, net))
            ELSE read_csv_memo(cr, url, net))

\* lines 211-238 of a run whose lines 198-199 gave ini
apos_inicial(ini, arquivo, url, carregar, limpar, net) ==
  IF ini.raised
  THEN [fase |-> "erro_padrao", df |-> SEM_DF, cd |-> ini.cd, cr |-> ini.cr, rerun |-> FALSE]
  ELSE IF limpar THEN passo_limpar(ini.cd, ini.cr, net)
  ELSE IF carregar \/ arquivo # SEM_ARQUIVO
  THEN passo_carregar(ini.df, arquivo, url, ini.cd, ini.cr, net)
  ELSE IF empty(ini.df)
  THEN [fase |-> "vazio", df |-> ini.df, cd |-> ini.cd, cr |-> ini.cr, rerun |-> FALSE]
  ELSE [fase |-> "painel", df |-> ini.df, cd |-> ini.cd, cr |-> ini.cr, rerun |-> FALSE]

\* lines 198-238 of one run: where it ends, and the session and caches it leaves;
\* lines 198-199 store the default table when the session holds none
antes_do_painel(df, arquivo, url, cd, cr, carregar, limpar, net) ==
  apos_inicial(IF df # SEM_DF THEN [raised |-> FALSE, df |-> df, cd |-> cd, cr |-> cr]
               ELSE get_default_dataframe(cd, cr, net),
               arquivo, url, carregar, limpar, net)

\* an aggregation that works on the stored table itself and leaves its filtered
\* rows in the session
df_apos_painel_sem_copia(df, df_ag) == df_ag

\* lines 269-283: df_ag is a copy, and every later step builds a new frame from
\* it, so the stored table is what it was
df_apos_painel(df, df_ag) == df

(***************************************************************************)
(* The runs of the page.  One run is one action: Streamlit runs the script *)
(* from top to bottom on every event.  The remote answers are an input of  *)
(* the run; within one run the three fetches of a chain get the same one.  *)
(***************************************************************************)
Redes ==
  { [i \in 1..3 |-> r] :
      r \in { NET_FALHA,
              Payload(<< <<"U","F",";","Q","t","d">>, <<"R","J",";","0">> >>, ";"),
              Payload(<< <<"A","n","o"," ","R","e","f",";","U","F",";","Q","t","d">>,
                         <<"2","0","2","0",";","S","P",";","0">>,
                         <<"2","0","2","1",";","M","G",";","1">> >>, SNIFF_FALHA) } }

Arquivos ==
  { Payload(<< <<"U","F",";","Q","t","d">>, <<"S","P",";","0">>,
               <<"S","ã","o"," ","P","a","u","l","o",";","1",".","0","0","0",",","0","0">> >>,
            SNIFF_FALHA),
    Payload(<<>>, SNIFF_FALHA) }

\* a new session: nothing stored, nothing memoised, nothing shown
SessaoNova ==
  /\ hemoprod_df = SEM_DF
  /\ up = SEM_ARQUIVO
  /\ hemoprod_url = DEFAULT_URL
  /\ cache_default = SEM_DF
  /\ cache_read = CACHE_VAZIO
  /\ rerun = FALSE
  /\ out = SEM_SAIDA

\* the end of a run whose lines 198-238 gave pre
Concluir(pre, arquivo, url) ==
  /\ up' = arquivo
  /\ hemoprod_url' = url
  /\ cache_default' = pre.cd
  /\ cache_read' = pre.cr
  /\ rerun' = pre.rerun
  /\ IF pre.fase = "painel"
     THEN \E req \in Requests(pre.df) :
            /\ out' = painel(pre.df, req)
            /\ hemoprod_df' = df_apos_painel(pre.df, out'.df_ag)
     ELSE /\ out' = saida(pre.fase)
          /\ hemoprod_df' = pre.df
  /\ UNCHANGED util

\* one run of pagina_anvisa with the buttons' values, the uploader's file and the
\* URL text of this run
Run(carregar, limpar, arquivo, url) ==
  \E net \in Redes :
    Concluir(antes_do_painel(hemoprod_df, arquivo, url, cache_default, cache_read,
                             carregar, limpar, net),
             arquivo, url)

\* the last run drew the buttons, the uploader and the URL input (lines 201-209)
widgets == out.fase \notin {"inicio", "erro_padrao"}

\* the page is opened or run again, or a widget of the panel changes: a run with
\* no button pressed
Interagir == ~rerun /\ Run(FALSE, FALSE, up, hemoprod_url)

\* the button "Carregar URL agora"
ClicarCarregar == widgets /\ Run(TRUE, FALSE, up, hemoprod_url)

\* the button "Limpar base e voltar ao padrão"
ClicarLimpar == widgets /\ Run(FALSE, TRUE, up, hemoprod_url)

\* a file is dropped on the uploader
Enviar == widgets /\ \E f \in Arquivos : f # up /\ Run(FALSE, FALSE, f, hemoprod_url)

\* the file is removed from the uploader
RemoverArquivo == widgets /\ up # SEM_ARQUIVO /\ Run(FALSE, FALSE, SEM_ARQUIVO, hemoprod_url)

\* the URL text is edited
EditarUrl == widgets /\ \E u \in URLS : u # hemoprod_url /\ Run(FALSE, FALSE, up, u)

\* the run that st.rerun() asked for
Rerun == rerun /\ Run(FALSE, FALSE, up, hemoprod_url)

\* the page is opened in a new browser session: st.session_state starts empty,
\* the st.cache_data entries are shared by all sessions and stay
NovaSessao ==
  /\ out.fase # "inicio"
  /\ hemoprod_df' = SEM_DF
  /\ up' = SEM_ARQUIVO
  /\ hemoprod_url' = DEFAULT_URL
  /\ rerun' = FALSE
  /\ out' = SEM_SAIDA
  /\ UNCHANGED <<cache_default, cache_read, util>>

\* an hour passes: the ttl of get_default_dataframe's entry runs out
ExpirarTtl ==
  /\ cache_default # SEM_DF
  /\ cache_default' = SEM_DF
  /\ UNCHANGED <<hemoprod_df, up, hemoprod_url, cache_read, rerun, out, util>>

\* Streamlit's "Clear cache" command empties both st.cache_data caches
LimparCaches ==
  /\ cache_default # SEM_DF \/ cache_read # CACHE_VAZIO
  /\ cache_default' = SEM_DF
  /\ cache_read' = CACHE_VAZIO
  /\ UNCHANGED <<hemoprod_df, up, hemoprod_url, rerun, out, util>>

(***************************************************************************)
(* Specification SpecUf: uf_para_sigla applied to one input.               *)
(* The inputs are every name of UF_NOMES in upper, lower and title case,   *)
(* with up to MaxPad whitespace characters before and after it and every   *)
(* internal space written as 1..MaxPad+1 whitespace characters, plus the   *)
(* short strings, the blank strings and None.                              *)
(***************************************************************************)
RECURSIVE repeat(_, _)
repeat(c, n) == IF n = 0 THEN <<>> ELSE <<c>> \o repeat(c, n - 1)

\* every internal space of s written as n copies of the whitespace character ws
RECURSIVE widen(_, _, _)
widen(s, ws, n) ==
  IF s = <<>> THEN <<>>
  ELSE (IF Head(s) = " " THEN repeat(ws, n) ELSE <<Head(s)>>) \o widen(Tail(s), ws, n)

\* str.title() of an upper-case name: each word keeps its first letter in capitals
RECURSIVE title(_, _)
title(s, start) ==
  IF s = <<>> THEN <<>>
  ELSE (IF start THEN <<Head(s)>> ELSE lower_char(Head(s)))
       \o title(Tail(s), Head(s) = " ")

CaseModes == {"upper", "lower", "title"}

WsChars == {" ", "TAB", "NBSP"}

in_case(s, mode) ==
  CASE mode = "upper" -> s
    [] mode = "lower" -> lower(s)
    [] mode = "title" -> title(s, TRUE)

NameInputs ==
  { [valor |-> repeat(ws, lead) \o widen(in_case(UF_NOMES[i][1], mode), ws, gap)
                 \o repeat(ws, trail),
     nome |-> i, ws |-> ws] :
      i \in 1..Len(UF_NOMES), mode \in CaseModes, ws \in WsChars,
      lead \in 0..MaxPad, trail \in 0..MaxPad, gap \in 1..(MaxPad + 1) }

ShortChars == {"s", "p", "R", "J", "ß", " "}

OtherInputs ==
  { [valor |-> v, nome |-> 0, ws |-> " "] :
      v \in {None, NaN, <<>>, <<"x", "y", "z">>} \cup
            { <<c>> : c \in ShortChars } \cup
            { <<c, d>> : c \in ShortChars, d \in ShortChars } \cup
            { repeat(ws, n) : ws \in WsChars, n \in 1..(MaxPad + 2) } }

InitUf ==
  /\ arg \in NameInputs \cup OtherInputs
  /\ ret = Pending
  /\ SessaoNova

UfCall ==
  /\ ret = Pending
  /\ ret' = Retorno(uf_para_sigla(arg.valor))
  /\ UNCHANGED <<arg, sessao, out>>

SpecUf == InitUf /\ [][UfCall]_vars

\* C10: every name of the table, in any case, with or without diacritics, with
\* surrounding or repeated internal whitespace, maps to its code; None and blank
\* input map to None; and every non-null result is a fixed point of uf_para_sigla.
C10_Claim ==
  ret.done =>
    /\ arg.nome # 0 => ret.valor = UF_NOMES[arg.nome][2]
    /\ (arg.valor = None \/ (arg.valor # NaN /\ strip(arg.valor) = <<>>))
         => ret.valor = None
    /\ ret.valor # None => uf_para_sigla(ret.valor) = ret.valor

\* what does hold: the same with ASCII whitespace only inside the name, and the
\* fixed point for the results of at most two characters
NomesAscii ==
  ret.done =>
    /\ (arg.nome # 0 /\ arg.ws # "NBSP") => ret.valor = UF_NOMES[arg.nome][2]
    /\ (arg.valor = None \/ (arg.valor # NaN /\ strip(arg.valor) = <<>>))
         => ret.valor = None
    /\ (ret.valor # None /\ Len(ret.valor) <= 2) => uf_para_sigla(ret.valor) = ret.valor

(***************************************************************************)
(* Specification SpecAgg: the aggregation over every small table.  A table *)
(* has any non-empty selection of the columns "ano de referência", "uf"    *)
(* and "qtd" and 1..MaxRows rows of cells drawn from the sets below; the   *)
(* one action is a run of the page with the widgets set to any offered     *)
(* choice.                                                                 *)
(***************************************************************************)
COL_ANO == <<"a","n","o"," ","d","e"," ","r","e","f","e","r","ê","n","c","i","a">>

COL_UF == <<"u","f">>

COL_QTD == <<"q","t","d">>

YearCells == { <<"2","0","2","0">>, <<"2","0","2","1">>, <<"2","0","2","1",".","0">>, NaN }

RegionCells ==
  { <<"S","P">>, <<"S","ã","o"," ","P","a","u","l","o">>, <<"R","J">>, <<"M","G">>, NaN }

MetricCells == { <<"1",".","0","0","0",",","0","0">>, <<"0">>, <<"x">>, NaN }

\* a table with a year column draws its region and metric cells from smaller
\* sets, and a table with all three columns its year cells too
CellsOf(c, cols) ==
  CASE c = COL_ANO ->
         IF Len(cols) = 3 THEN YearCells \ {<<"2","0","2","1",".","0">>, NaN} ELSE YearCells
    [] c = COL_UF ->
         IF InSeq(cols, COL_ANO)
         THEN RegionCells \ {<<"S","ã","o"," ","P","a","u","l","o">>} ELSE RegionCells
    [] c = COL_QTD ->
         IF InSeq(cols, COL_ANO) THEN MetricCells \ {<<"x">>, NaN} ELSE MetricCells

Shapes ==
  { <<COL_ANO, COL_UF, COL_QTD>>, <<COL_UF, COL_QTD>>, <<COL_ANO, COL_UF>>,
    <<COL_ANO, COL_QTD>>, <<COL_ANO>>, <<COL_UF>>, <<COL_QTD>> }

\* every row of a table with the columns cols
RowsOf(cols) ==
  { r \in [1..Len(cols) -> YearCells \cup RegionCells \cup MetricCells] :
      \A i \in 1..Len(cols) : r[i] \in CellsOf(cols[i], cols) }

AggTables ==
  UNION { { DataFrame(cols, rows) :
              rows \in UNION { [1..n -> RowsOf(cols)] : n \in 1..MaxRows } } :
          cols \in Shapes }

InitAgg ==
  /\ hemoprod_df \in AggTables
  /\ up = SEM_ARQUIVO
  /\ hemoprod_url = DEFAULT_URL
  /\ cache_default = SEM_DF
  /\ cache_read = CACHE_VAZIO
  /\ rerun = FALSE
  /\ out = SEM_SAIDA
  /\ arg = SEM_ARG
  /\ ret = Pending

\* the first run on the drawn table
InteragirUmaVez == out = SEM_SAIDA /\ Interagir

SpecAgg == InitAgg /\ [][InteragirUmaVez]_vars

(***************************************************************************)
(* Properties of the aggregation (specification SpecAgg).                  *)
(***************************************************************************)
\* the region code under which row k of the filtered table is summarised
codigo(df_ag, uf_col, k) == strip(upper(str(uf_norm(df_ag, uf_col)[k])))

\* the rows of the filtered table summarised under the code uf
linhas_de(df_ag, uf_col, uf) ==
  { k \in 1..Len(df_ag.rows) : codigo(df_ag, uf_col, k) = uf }

\* the sum of the parsed metric cells of those rows; an unparseable cell adds nothing
soma_simples(df_ag, uf_col, met_col, uf) ==
  SumSeq([k \in 1..Len(df_ag.rows) |->
            IF k \in linhas_de(df_ag, uf_col, uf)
               /\ to_numeric_safe(df_ag.rows[k][loc(df_ag, met_col)]).ok
            THEN to_numeric_safe(df_ag.rows[k][loc(df_ag, met_col)]).v
            ELSE 0])

SumValores(grupo) == SumSeq([g \in 1..Len(grupo) |-> grupo[g].valor])

\* the rows of the filtered table whose region is one of the 27 codes
linhas_canonicas(df_ag, uf_col) ==
  { k \in 1..Len(df_ag.rows) : codigo(df_ag, uf_col, k) \in UF_CENTER }

\* C1 as stated: in count mode with a region column selected, the values of the
\* summary sum to the number N of rows left by the year filter.
C1_Claim ==
  (out.fase = "painel" /\ out.req.oper = CONTAGEM /\ out.req.uf_col # None)
    => SumValores(out.grupo) = 100 * out.total_reg

\* C1 amended: in count mode with a region column selected, the values of the
\* summary sum to the number of filtered rows whose normalised region is one of
\* the 27 codes (so to N exactly when every filtered row has such a region).
C1_ContagemCanonica ==
  (out.fase = "painel" /\ out.req.oper = CONTAGEM /\ out.req.uf_col # None)
    => /\ SumValores(out.grupo)
            = 100 * Cardinality(linhas_canonicas(out.df_ag, out.req.uf_col))
       /\ Cardinality(linhas_canonicas(out.df_ag, out.req.uf_col)) = out.total_reg
            => SumValores(out.grupo) = 100 * out.total_reg

\* a count over two rows left by an active year filter, one of them without a
\* canonical region
C1_Witness ==
  /\ out.fase = "painel"
  /\ out.req.oper = CONTAGEM
  /\ out.req.uf_col = COL_UF
  /\ out.req.ano # TODOS
  /\ Len(hemoprod_df.columns) = 3
  /\ out.total_reg = 2
  /\ SumValores(out.grupo) = 100

\* C2: the summary holds only codes of UF_CENTER, at most one row per code, and
\* in count mode no negative value.
C2_ResumoCanonico ==
  out.fase = "painel" =>
    /\ \A g \in 1..Len(out.grupo) : out.grupo[g].uf \in UF_CENTER
    /\ \A g, h \in 1..Len(out.grupo) : g # h => out.grupo[g].uf # out.grupo[h].uf
    /\ out.req.oper = CONTAGEM => \A g \in 1..Len(out.grupo) : out.grupo[g].valor >= 0

\* two rows spelled "SP" and "São Paulo" counted in one summary row
C2_Witness ==
  /\ out.fase = "painel"
  /\ out.req.oper = CONTAGEM
  /\ out.req.uf_col = COL_UF
  /\ Len(out.df_ag.rows) = 2
  /\ out.df_ag.rows[1][loc(out.df_ag, COL_UF)] = <<"S","P">>
  /\ out.df_ag.rows[2][loc(out.df_ag, COL_UF)] = <<"S","ã","o"," ","P","a","u","l","o">>
  /\ out.grupo = << [uf |-> <<"S","P">>, valor |-> 200] >>

\* C3: in sum mode a summary value differs from the plain sum of the region's
\* parsed metric cells only for RJ or SP, only when that sum is zero and the
\* region has rows in the filtered table, and it is then the region's row count
\* there; in count mode every value is the plain row count.
C3_CorrecaoRestrita ==
  (out.fase = "painel" /\ out.req.uf_col # None) =>
    \A g \in 1..Len(out.grupo) :
      LET uf == out.grupo[g].uf
          n == Cardinality(linhas_de(out.df_ag, out.req.uf_col, uf))
      IN IF out.req.oper = CONTAGEM THEN out.grupo[g].valor = 100 * n
         ELSE LET soma == soma_simples(out.df_ag, out.req.uf_col, out.req.met_col, uf)
              IN IF uf \in { <<"R","J">>, <<"S","P">> } /\ soma = 0 /\ n > 0
                 THEN out.grupo[g].valor = 100 * n
                 ELSE out.grupo[g].valor = soma

\* the scenario of the specification: SP keeps its sum 1000.0, RJ takes its count 1
C3_Witness ==
  /\ out.fase = "painel"
  /\ out.req.oper = SOMA
  /\ Range(out.grupo) = { [uf |-> <<"S","P">>, valor |-> 100000],
                          [uf |-> <<"R","J">>, valor |-> 100] }

\* the largest number parsed from the year column of df
maior_ano(df, col_ano) ==
  LET vs == { anos_num(df, col_ano)[k].v :
                k \in { j \in 1..Len(df.rows) : anos_num(df, col_ano)[j].ok } }
  IN CHOOSE m \in vs : \A v \in vs : v <= m

\* C5: under "(Mais recente)" the filtered table is exactly the rows whose year
\* parses to the largest year of the column; under "(Todos)" no row is removed.
C5_Claim ==
  LET col_ano == detecta_colunas(hemoprod_df).col_ano
  IN (out.fase \in {"painel", "excecao"} /\ col_ano # None) =>
       /\ out.req.ano = RECENTE =>
            out.df_ag.rows =
              masked(hemoprod_df.rows,
                     [k \in 1..Len(hemoprod_df.rows) |->
                        /\ anos_num(hemoprod_df, col_ano)[k].ok
                        /\ anos_num(hemoprod_df, col_ano)[k].v
                             = maior_ano(hemoprod_df, col_ano)])
       /\ out.req.ano = TODOS => out.df_ag = hemoprod_df

\* C6: a run never raises, and when the region column, or in sum mode the metric
\* column, is absent it shows an empty summary with the "insufficient data" notice.
C6_Claim ==
  out.fase # "inicio" =>
    /\ out.fase # "excecao"
    /\ (out.req.uf_col = None \/ (out.req.oper = SOMA /\ out.req.met_col = None))
         => (out.grupo = <<>> /\ out.aviso)

\* C9: in sum mode the caller has a choice of the page's inputs, with the same
\* year, columns and mode, under which every region shows its plain sum.
C9_Claim ==
  (out.fase = "painel" /\ out.req.oper = SOMA /\ out.req.uf_col # None) =>
    \E r \in Requests(hemoprod_df) :
      /\ r.ano = out.req.ano /\ r.uf_col = out.req.uf_col
      /\ r.met_col = out.req.met_col /\ r.oper = SOMA
      /\ \A g \in 1..Len(painel(hemoprod_df, r).grupo) :
           painel(hemoprod_df, r).grupo[g].valor
             = soma_simples(out.df_ag, r.uf_col, r.met_col,
                            painel(hemoprod_df, r).grupo[g].uf)

(***************************************************************************)
(* Specification SpecCsv: read_csv_robusto applied to one source, an       *)
(* uploaded payload of up to MaxLines lines or a URL whose three fetches   *)
(* each answer with a payload or fail.                                     *)
(***************************************************************************)
Lines ==
  { <<"U","F",";","Q","t","d">>, <<"U","F",",","Q","t","d">>,
    <<"S","P",";","1">>, <<"S","P",",","1">>, <<"S","P",";","1",";","2">>,
    <<";","U","F">> }

Payloads ==
  { Payload(linhas, sniff) :
      linhas \in UNION { [1..n -> Lines] : n \in 0..MaxLines }, sniff \in {";", ",", SNIFF_FALHA} }

Respostas ==
  { NET_FALHA,
    Payload(<< <<"U","F",";","Q","t","d">>, <<"S","P",";","1">> >>, SNIFF_FALHA),
    Payload(<< <<"U","F",";","Q","t","d">> >>, ";"),
    Payload(<< <<"U","F",",","Q","t","d">>, <<"S","P",",","1">> >>, ",") }

CsvArgs ==
  { [origem |-> b, uploaded |-> TRUE, net |-> [i \in 1..3 |-> NET_FALHA]] : b \in Payloads } \cup
  { [origem |-> DEFAULT_URL, uploaded |-> FALSE, net |-> n] : n \in [1..3 -> Respostas] }

InitCsv ==
  /\ arg \in CsvArgs
  /\ ret = Pending
  /\ SessaoNova

ReadCsvCall ==
  /\ ~ret.done
  /\ ret' = Retorno(read_csv_robusto(arg.origem, arg.uploaded, arg.net))
  /\ UNCHANGED <<arg, sessao, out>>

SpecCsv == InitCsv /\ [][ReadCsvCall]_vars

\* what the i-th strategy gives on the whole source: the uploaded payload read
\* from its first line, or the response of the i-th fetch
estrategia(a, i) ==
  LET fonte == IF a.uploaded THEN a.origem ELSE a.net[i]
  IN IF fonte = NET_FALHA THEN [raised |-> TRUE, df |-> SEM_DF]
     ELSE read_csv(fonte.linhas, CASE i = 1 -> fonte.sniff [] i = 2 -> ";" [] i = 3 -> ",")

sucesso(r) == ~r.raised /\ ~empty(r.df)

\* C8: the result is that of the first strategy that succeeds, in the order
\* auto-detect, ';', ',': the first two succeed when they do not raise and give
\* at least one row, the third whenever it does not raise; the call raises only
\* when the third raises; and every attempt on an uploaded buffer starts at 0.
C8_CadeiaDeTentativas ==
  ret.done =>
    LET r == ret.valor
        a1 == estrategia(arg, 1)
        a2 == estrategia(arg, 2)
        a3 == estrategia(arg, 3)
    IN /\ sucesso(a1) => (~r.raised /\ r.via = 1 /\ r.df = a1.df)
       /\ (~sucesso(a1) /\ sucesso(a2)) => (~r.raised /\ r.via = 2 /\ r.df = a2.df)
       /\ (~sucesso(a1) /\ ~sucesso(a2) /\ ~a3.raised)
            => (~r.raised /\ r.via = 3 /\ r.df = a3.df)
       /\ r.raised <=> (~sucesso(a1) /\ ~sucesso(a2) /\ a3.raised)
       /\ arg.uploaded => \A i \in 1..Len(r.inicio) : r.inicio[i] = 0

\* an uploaded semicolon-delimited payload on which the sniffer fails, returned
\* by the forced-';' attempt
C8_Witness ==
  /\ ret.done
  /\ arg.uploaded
  /\ arg.origem = Payload(<< <<"U","F",";","Q","t","d">>, <<"S","P",";","1">> >>,
                          SNIFF_FALHA)
  /\ ret.valor.via = 2
  /\ ret.valor.inicio = <<0, 0>>
  /\ ret.valor.df = DataFrame(<< <<"U","F">>, <<"Q","t","d">> >>,
                              << << <<"S","P">>, <<"1">> >> >>)

(***************************************************************************)
(* Specification Spec: one session of the page, from its first run.        *)
(***************************************************************************)
Init ==
  /\ SessaoNova
  /\ arg = SEM_ARG
  /\ ret = Pending

Next ==
  \/ Interagir
  \/ ClicarCarregar
  \/ ClicarLimpar
  \/ Enviar
  \/ RemoverArquivo
  \/ EditarUrl
  \/ Rerun
  \/ NovaSessao
  \/ ExpirarTtl
  \/ LimparCaches

Spec == Init /\ [][Next]_vars

(***************************************************************************)
(* Properties of the session.                                              *)
(***************************************************************************)
\* C4: whenever a load (URL, upload, reset) fails, the session holds after the
\* failure the table it held before the operation began.
C4_Claim ==
  [][(hemoprod_df # SEM_DF /\ out'.fase \in {"falha", "erro_limpar", "erro_padrao"}) => hemoprod_df' = hemoprod_df]_vars

\* the failures the handler catches (lines 218-233) do leave the table as it was
C4_FalhaCapturada ==
  [][(hemoprod_df # SEM_DF /\ out'.fase = "falha") => hemoprod_df' = hemoprod_df]_vars

padroes ==
  { normaliza_colunas(read_csv_robusto(DEFAULT_URL, FALSE, net).df) :
      net \in { n \in Redes : ~read_csv_robusto(DEFAULT_URL, FALSE, n).raised } }

\* C11: after a successful load the run that follows reaches the panel with the
\* stored table, without loading again, also while the uploader still holds
\* the file; and a reset leaves the default table stored.
C11_Claim ==
  /\ (rerun /\ out.fase = "carregado") =>
       \A net \in Redes :
         antes_do_painel(hemoprod_df, up, hemoprod_url, cache_default, cache_read,
                         FALSE, FALSE, net).fase \in {"painel", "vazio"}
  /\ out.fase = "limpo" => hemoprod_df \in padroes

\* with no file in the uploader it is so: the button is FALSE again in the run
\* that st.rerun() starts, and the reset stores what get_default_dataframe gave
C11_SemArquivo ==
  /\ (rerun /\ out.fase = "carregado" /\ up = SEM_ARQUIVO) =>
       \A net \in Redes :
         antes_do_painel(hemoprod_df, up, hemoprod_url, cache_default, cache_read,
                         FALSE, FALSE, net).fase \in {"painel", "vazio"}
  /\ out.fase = "limpo" => hemoprod_df \in padroes

\* get_default_dataframe called with the caches cd, cr fetches the default URL:
\* neither its own entry nor read_csv_robusto's entry for the URL is there
busca_padrao(cd, cr) == cd = SEM_DF /\ cr[DEFAULT_URL] = SEM_DF

\* C12: the table a reset stores comes from a fetch of the default URL made by
\* that reset, and without a reset a default table is taken from the memo only
\* while its entry has not expired.
C12_Claim ==
  [][/\ (ClicarLimpar /\ out'.fase = "limpo") => busca_padrao(cache_default, cache_read)
     /\ (hemoprod_df = SEM_DF /\ hemoprod_df' # SEM_DF /\ cache_default = SEM_DF)
          => busca_padrao(cache_default, cache_read)]_vars

====
